---- MODULE Spec2Model ----
(***************************************************************************)
(* A model of the two programs of the repository that sit on top of the    *)
(* scraping engine:                                                        *)
(*   - the line-protocol bridge, src/whosampled_connector/server.py        *)
(*     (cli and the three tool functions of TOOL_MAP);                     *)
(*   - the Streamlit dashboard, src/app.py (one action per script run).    *)
(* The engine itself (scraper.py, class WhoSampledScraper) is not part of  *)
(* the sources at hand; its two calls are modelled by the set of results   *)
(* the specification allows them to produce (SearchOutcomes,               *)
(* DetailsOutcomes).                                                       *)
(*                                                                         *)
(* Python values are modelled by strings: JSON strings by themselves, the  *)
(* other JSON values by the tokens below.  Python dicts are records, the   *)
(* keys of the dict being the DOMAIN of the record.                        *)
(***************************************************************************)
EXTENDS Integers, Sequences, FiniteSets, TLC

VARIABLES
    mode,       \* which program this process is: "bridge" or "dashboard"
    pc,         \* bridge: position of cli ("import","read","handle","await","done","crashed");
                \* "none" in a dashboard session
    line,       \* bridge: the line last read from standard input
    nread,      \* bridge: number of lines read (end-of-input not counted)
    nwritten,   \* bridge: number of lines written to standard output
    out,        \* bridge: the line written to standard output for the request in hand
    answered,   \* bridge: for each line written, the number of the request in hand
    frame,      \* bridge: the tool function suspended in asyncio.run
    inflight,   \* bridge: scraper coroutines started and not yet finished
    log,        \* bridge: scraper calls and returns of the request in hand
    invoked,    \* bridge: the tool function cli called for the request in hand
    badSeen,    \* bridge: a malformed line has been read
    eof,        \* bridge: readline returned the empty string
    scraper,    \* the scraper instance in use (0: none yet), SCRAPER / session_state.scraper
    created,    \* number of WhoSampledScraper objects constructed so far
    served,     \* the scraper instances whose coroutines were run
    current_track,  \* dashboard: st.session_state.current_track
    track_details,  \* dashboard: st.session_state.track_details
    detailsUrl,     \* dashboard: the url track_details was fetched for
    fault,      \* dashboard: the exception that ended the last script run, or "none"
    notice,     \* dashboard: what the last script run reported about a search
    tabs,       \* dashboard: the last script run rendered the four relation tabs
    loadShown,  \* dashboard: the last script run rendered the Load button
    runs        \* dashboard: number of script runs so far

vars == <<mode, pc, line, nread, nwritten, out, answered, frame, inflight, log,
          invoked, badSeen, eof, scraper, created, served,
          current_track, track_details, detailsUrl, fault, notice, tabs, loadShown,
          runs>>

bridgeVars == <<pc, line, nread, nwritten, out, answered, frame, inflight, log,
                invoked, badSeen, eof>>

dashVars == <<current_track, track_details, detailsUrl, fault, notice, tabs,
              loadShown, runs>>

----------------------------------------------------------------------------
(* Bounds of the model *)

MaxLines == 3       \* lines the bridge reads before the model stops it
MaxRuns == 4        \* script runs of a dashboard session before the model stops it

----------------------------------------------------------------------------
(* Python values *)

Absent == "<absent>"            \* the key is not in the dict
PyNone == "None"                \* None, as str() prints it
IntSeven == "<int 7>"           \* a JSON number: a truthy value that is no str
IntZero == "<int 0>"            \* a JSON number: a falsy value that is no str
JsonList == "<list>"            \* a JSON array or object: truthy, no str, unhashable
PyTrue == "True"
PyFalse == "False"

NonStr == {PyNone, IntSeven, IntZero, JsonList, PyTrue, PyFalse}

IsStr(v) == v \notin NonStr

\* bool(v): the empty string, 0, None and False are falsy
Truthy(v) == v \notin {"", IntZero, PyNone, PyFalse}

\* hash(v) succeeds
Hashable(v) == v # JsonList

\* str.startswith
StartsWith(s, prefix) ==
    /\ Len(s) >= Len(prefix)
    /\ SubSeq(s, 1, Len(prefix)) = prefix

\* What a function, a tool or cli's body comes to: a returned value, a raised
\* exception, or a suspension in asyncio.run on a scraper coroutine.
Ret(v) == [t |-> "ret", v |-> v]
Raise(exc, msg) == [t |-> "raise", exc |-> exc, msg |-> msg]
Await(fn, arg, url, track_title, include_youtube) ==
    [t |-> "await", fn |-> fn, arg |-> arg, url |-> url,
     track_title |-> track_title, include_youtube |-> include_youtube]

----------------------------------------------------------------------------
(* The engine: scraper.py, WhoSampledScraper.  Its source is not at hand;  *)
(* the two coroutines are modelled by what they may come to.               *)

Track1 == [found |-> TRUE, title |-> "One More Time", artist |-> "Daft Punk",
           url |-> "https://ws/track/1", image_url |-> "https://ws/img/1"]
Track2 == [found |-> TRUE, title |-> "Stronger", artist |-> "Kanye West",
           url |-> "https://ws/track/2"]
Tracks == {Track1, Track2}

\* not found, with and without an "error" key
NotFound == {[found |-> FALSE, error |-> "No results found"], [found |-> FALSE]}

\* an exception a scraper coroutine raises (a subclass of Exception)
ScraperRaises == {Raise("Exception", "Timeout 30000ms exceeded")}

\* SCRAPER.search_track(query)
SearchOutcomes == {Ret(r) : r \in Tracks \cup NotFound} \cup ScraperRaises

Rel1 == [track |-> "Cola Bottle Baby", artist |-> "Eddie Johns", url |-> "https://ws/track/3"]
Rel2 == [track |-> "Harder Better", artist |-> "Daft Punk", url |-> "https://ws/track/4"]
RelLists == {<< >>, <<Rel1>>, <<Rel2, Rel1>>}

\* a page that was read: the four lists, and the video id or None
DetailsFound == [samples : RelLists, sampled_by : RelLists, covers : RelLists,
                 remixes : RelLists, youtube_id : {PyNone, "dQw4w9WgXcQ"}]

\* a page that was not: the error and nothing else
DetailsFailed == {[error |-> "FetchFailed: page did not load"],
                  [error |-> "ParseFailed: layout not recognised"]}

\* SCRAPER.get_track_details(url, include_youtube)
DetailsOutcomes == {Ret(d) : d \in DetailsFound \cup DetailsFailed} \cup ScraperRaises

\* dict.get(key) on the results above, None when the key is missing
Get(d, key) == IF key \in DOMAIN d THEN d[key] ELSE PyNone

----------------------------------------------------------------------------
(* server.py: the tool functions.  Each is in two parts, up to the scraper *)
(* coroutine it runs with asyncio.run and from that coroutine's outcome on. *)

\* search_track, lines 22-27
search_track(query) ==
    IF ~Truthy(query)
    THEN Ret([error |-> "Query parameter is missing."])
    ELSE Await("search_track", query, Absent, Absent, Absent)

\* search_track without its try/except: the scraper's exception leaves it
search_track_resume_reraises(r) ==
    IF r.t = "raise"
    THEN r
    ELSE IF r.v.found
         THEN Ret([title |-> r.v.title, artist |-> r.v.artist, url |-> r.v.url,
                   message |-> "Track found on WhoSampled. Use get_track_samples or get_track_details_by_url for details."])
         ELSE Ret([error |-> IF "error" \in DOMAIN r.v THEN r.v.error
                             ELSE "No track found for the query."])

\* search_track, lines 29-40; r is what SCRAPER.search_track came to
search_track_resume(r) ==
    IF r.t = "raise"
    THEN Ret([error |-> "An unexpected error occurred during search: " \o r.msg])
    ELSE IF r.v.found
         THEN Ret([title |-> r.v.title, artist |-> r.v.artist, url |-> r.v.url,
                   message |-> "Track found on WhoSampled. Use get_track_samples or get_track_details_by_url for details."])
         ELSE Ret([error |-> IF "error" \in DOMAIN r.v THEN r.v.error
                             ELSE "No track found for the query."])

\* get_track_details_by_url, lines 68-73
get_track_details_by_url(url, track_title, include_youtube) ==
    IF ~Truthy(url)
    THEN Ret([error |-> "Invalid or missing URL parameter."])
    ELSE IF ~IsStr(url)
    THEN Raise("AttributeError", "object has no attribute 'startswith'")
    ELSE IF ~StartsWith(url, "http")
    THEN Ret([error |-> "Invalid or missing URL parameter."])
    ELSE Await("get_track_details", url, url, track_title, include_youtube)

\* the dict of lines 78-85 with the two sample lists taken for each other
DetailsOutput_swapped(url, track_title, details) ==
    [track |-> track_title, url |-> url, samples |-> details.sampled_by,
     sampled_by |-> details.samples, covers |-> details.covers,
     remixes |-> details.remixes]

\* the dict built at lines 78-85
DetailsOutput(url, track_title, details) ==
    [track |-> track_title, url |-> url, samples |-> details.samples,
     sampled_by |-> details.sampled_by, covers |-> details.covers,
     remixes |-> details.remixes]

\* the "youtube" key set whenever the scraper found a video id
WithYoutube_always(output, include_youtube, details) ==
    IF Truthy(Get(details, "youtube_id"))
    THEN [k \in DOMAIN output \cup {"youtube"} |->
            IF k = "youtube" THEN "https://www.youtube.com/watch?v=" \o details.youtube_id
            ELSE output[k]]
    ELSE IF Truthy(include_youtube)
    THEN [k \in DOMAIN output \cup {"youtube"} |->
            IF k = "youtube" THEN "YouTube link not found on the WhoSampled page."
            ELSE output[k]]
    ELSE output

\* lines 87-90: the "youtube" key
WithYoutube(output, include_youtube, details) ==
    IF Truthy(include_youtube) /\ Truthy(Get(details, "youtube_id"))
    THEN [k \in DOMAIN output \cup {"youtube"} |->
            IF k = "youtube" THEN "https://www.youtube.com/watch?v=" \o details.youtube_id
            ELSE output[k]]
    ELSE IF Truthy(include_youtube)
    THEN [k \in DOMAIN output \cup {"youtube"} |->
            IF k = "youtube" THEN "YouTube link not found on the WhoSampled page."
            ELSE output[k]]
    ELSE output

\* get_track_details_by_url reporting a page without relations as an error
get_track_details_by_url_resume_empty_is_error(url, track_title, include_youtube, r) ==
    IF r.t = "raise"
    THEN Ret([error |-> "An unexpected error occurred during details lookup: " \o r.msg])
    ELSE IF Truthy(Get(r.v, "error"))
    THEN Ret([error |-> r.v.error])
    ELSE IF r.v.samples = << >> /\ r.v.sampled_by = << >> /\ r.v.covers = << >>
            /\ r.v.remixes = << >>
    THEN Ret([error |-> "No connections found."])
    ELSE Ret(WithYoutube(DetailsOutput(url, track_title, r.v), include_youtube, r.v))

\* get_track_details_by_url, lines 75-95; r is what SCRAPER.get_track_details came to
get_track_details_by_url_resume(url, track_title, include_youtube, r) ==
    IF r.t = "raise"
    THEN Ret([error |-> "An unexpected error occurred during details lookup: " \o r.msg])
    ELSE IF Truthy(Get(r.v, "error"))
    THEN Ret([error |-> r.v.error])
    ELSE IF ~({"samples", "sampled_by", "covers", "remixes"} \subseteq DOMAIN r.v)
    THEN Ret([error |-> "An unexpected error occurred during details lookup: KeyError"])
    ELSE Ret(WithYoutube(DetailsOutput(url, track_title, r.v), include_youtube, r.v))

\* get_track_samples, lines 48-52
get_track_samples(query, include_youtube) ==
    IF ~Truthy(query)
    THEN Ret([error |-> "Query parameter is missing."])
    ELSE LET s == search_track(query)
         IN  IF s.t = "await"
             THEN Await("search_track", query, Absent, Absent, include_youtube)
             ELSE s

\* get_track_samples without the test of the search result's "error"
get_track_samples_resume_no_check(include_youtube, r) ==
    LET search_result == search_track_resume(r).v
    IN  IF ~({"url", "title"} \subseteq DOMAIN search_result)
        THEN Raise("KeyError", "'url'")
        ELSE get_track_details_by_url(search_result.url, search_result.title,
                                      include_youtube)

\* get_track_samples, lines 52-60, from the outcome of the search on
get_track_samples_resume(include_youtube, r) ==
    LET search_result == search_track_resume(r).v
    IN  IF Truthy(Get(search_result, "error"))
        THEN Ret([error |-> "Search failed: " \o search_result.error])
        ELSE IF ~({"url", "title"} \subseteq DOMAIN search_result)
        THEN Raise("KeyError", "'url'")
        ELSE get_track_details_by_url(search_result.url, search_result.title,
                                      include_youtube)

\* TOOL_MAP, lines 99-103: the names it maps
TOOL_MAP == {"search_track", "get_track_samples", "get_track_details_by_url"}

----------------------------------------------------------------------------
(* server.py: the lines cli may read *)

QueryVals == {Absent, "", "daft punk one more time", IntSeven, IntZero}
UrlVals == {Absent, "", "https://ws/track/1", "ftp://ws/track/1", IntSeven}
TitleVals == {Absent, "My Title"}
YoutubeVals == {Absent, PyTrue, PyFalse}
OtherVals == {Absent, "x"}

\* the value of "tool": a known name, an unknown one, no key, or a JSON array
ToolVals == TOOL_MAP \cup {"no_such_tool", Absent, JsonList}

\* the value of "args": no key, a value that is no JSON object, or an object
\* holding some of the keys of a query tool or of the url tool, and other
ArgVals ==
    {[shape |-> "absent"], [shape |-> "notmapping"]}
    \cup [shape : {"mapping"}, query : QueryVals, url : {Absent},
          track_title : {Absent}, include_youtube : YoutubeVals, other : OtherVals]
    \cup [shape : {"mapping"}, query : {Absent}, url : UrlVals,
          track_title : TitleVals, include_youtube : YoutubeVals, other : {Absent}]

Lines ==
    {[kind |-> "badjson"], [kind |-> "nonobject"]}
    \cup [kind : {"object"}, tool : ToolVals, args : ArgVals]

NoLine == [kind |-> "none"]
NoFrame == [t |-> "idle"]
NoResponse == [none |-> TRUE]

ArgKeys == {"query", "url", "track_title", "include_youtube", "other"}

\* request.get("args", {}), line 126
tool_args(request) ==
    IF request.args.shape = "absent"
    THEN [k \in ArgKeys \cup {"shape"} |-> IF k = "shape" THEN "mapping" ELSE Absent]
    ELSE request.args

\* request.get("tool"), line 125
tool_name(request) == IF request.tool = Absent THEN PyNone ELSE request.tool

\* the parameters of each tool function, and the one without a default
Params(tool) ==
    CASE tool = "search_track" -> {"query"}
      [] tool = "get_track_samples" -> {"query", "include_youtube"}
      [] tool = "get_track_details_by_url" -> {"url", "track_title", "include_youtube"}

Required(tool) ==
    IF tool = "get_track_details_by_url" THEN "url" ELSE "query"

Default(v, d) == IF v = Absent THEN d ELSE v

\* tool_func(**tool_args), line 133, up to the first scraper coroutine
Call(tool, args) ==
    IF args.shape = "notmapping"
    THEN Raise("TypeError", "argument after ** must be a mapping")
    ELSE LET given == {k \in ArgKeys : args[k] # Absent}
         IN  IF ~(given \subseteq Params(tool))
             THEN Raise("TypeError", "got an unexpected keyword argument")
             ELSE IF Required(tool) \notin given
             THEN Raise("TypeError", "missing 1 required positional argument")
             ELSE CASE tool = "search_track" -> search_track(args.query)
                    [] tool = "get_track_samples" ->
                         get_track_samples(args.query,
                                           Default(args.include_youtube, PyFalse))
                    [] tool = "get_track_details_by_url" ->
                         get_track_details_by_url(args.url,
                                                  Default(args.track_title, "Track"),
                                                  Default(args.include_youtube, PyFalse))

\* response = {"result": result}, line 134
WrapResult(o) == IF o.t = "ret" THEN Ret([result |-> o.v]) ELSE o

\* cli reaches tool_func(**tool_args) for this line
ReachesTool(l) ==
    /\ l.kind = "object"
    /\ Hashable(tool_name(l))
    /\ tool_name(l) \in TOOL_MAP

\* cli, lines 124-134: the body of the try block after the line was read
cli_body(l) ==
    IF l.kind = "badjson"
    THEN Raise("JSONDecodeError", "Expecting value")
    ELSE IF l.kind = "nonobject"
    THEN Raise("AttributeError", "object has no attribute 'get'")
    ELSE IF ~Hashable(tool_name(l))
    THEN Raise("TypeError", "unhashable type: 'list'")
    ELSE IF tool_name(l) \notin TOOL_MAP
    THEN Ret([error |-> "Unknown tool: " \o tool_name(l)])
    ELSE WrapResult(Call(tool_name(l), tool_args(l)))

\* the exception classes that are subclasses of Exception
ExceptionClasses ==
    {"Exception", "JSONDecodeError", "EOFError", "TypeError", "AttributeError",
     "KeyError"}

\* cli without the clause "except Exception"
cli_except_no_generic(exc) ==
    IF exc = "JSONDecodeError" THEN "invalid_json"
    ELSE IF exc = "EOFError" THEN "break"
    ELSE "propagate"

\* cli leaving the loop on a JSONDecodeError
cli_except_json_breaks(exc) ==
    IF exc \in {"JSONDecodeError", "EOFError"} THEN "break"
    ELSE IF exc \in ExceptionClasses THEN "processing_error"
    ELSE "propagate"

\* cli, lines 140-149: what the except clauses do with an exception
cli_except(exc) ==
    IF exc = "JSONDecodeError" THEN "invalid_json"
    ELSE IF exc = "EOFError" THEN "break"
    ELSE IF exc \in ExceptionClasses THEN "processing_error"
    ELSE "propagate"

----------------------------------------------------------------------------
(* server.py: the bridge process *)

\* a scraper constructed anew for every call
SCRAPER_per_call == created + 1

\* the module global SCRAPER, line 15, as the tool functions read it
SCRAPER == scraper

\* sys.stdout.write(json.dumps(response) + "\n"), lines 137, 142, 148
Write(response) ==
    /\ out' = response
    /\ nwritten' = nwritten + 1
    /\ answered' = Append(answered, nread)

\* The rest of one pass of the while loop, from what the try block came to:
\* the response is written, or the tool function is suspended on a scraper
\* coroutine, or an except clause takes the exception.  running and lg are
\* the coroutines in flight and the log before this step's own call.
Settle(o, running, lg) ==
    CASE o.t = "ret" ->
            /\ Write(o.v)
            /\ pc' = "read"
            /\ frame' = NoFrame
            /\ inflight' = running
            /\ log' = lg
            /\ served' = served
      [] o.t = "await" ->
            /\ pc' = "await"
            /\ frame' = o
            /\ inflight' = running + 1
            /\ log' = Append(lg, [ev |-> "call", fn |-> o.fn, arg |-> o.arg,
                                  inst |-> SCRAPER])
            /\ served' = served \cup {SCRAPER}
            /\ UNCHANGED <<out, nwritten, answered>>
      [] o.t = "raise" /\ cli_except(o.exc) = "invalid_json" ->
            /\ Write([error |-> "Invalid JSON input."])
            /\ pc' = "read"
            /\ frame' = NoFrame
            /\ inflight' = running
            /\ log' = lg
            /\ served' = served
      [] o.t = "raise" /\ cli_except(o.exc) = "processing_error" ->
            /\ Write([error |-> "Server processing error: " \o o.msg])
            /\ pc' = "read"
            /\ frame' = NoFrame
            /\ inflight' = running
            /\ log' = lg
            /\ served' = served
      [] o.t = "raise" /\ cli_except(o.exc) = "break" ->
            /\ pc' = "done"
            /\ frame' = NoFrame
            /\ inflight' = running
            /\ log' = lg
            /\ served' = served
            /\ UNCHANGED <<out, nwritten, answered>>
      [] o.t = "raise" /\ cli_except(o.exc) = "propagate" ->
            /\ pc' = "crashed"
            /\ frame' = NoFrame
            /\ inflight' = running
            /\ log' = lg
            /\ served' = served
            /\ UNCHANGED <<out, nwritten, answered>>

\* import of the module: SCRAPER = WhoSampledScraper(), line 15, then cli()
Import ==
    /\ mode = "bridge"
    /\ pc = "import"
    /\ created' = created + 1
    /\ scraper' = created + 1
    /\ pc' = "read"
    /\ UNCHANGED <<mode, line, nread, nwritten, out, answered, frame, inflight,
                   log, invoked, badSeen, eof, served>>
    /\ UNCHANGED dashVars

\* a loop that reads the next line while a scraper coroutine is running
ReadLinePipelined ==
    /\ mode = "bridge"
    /\ pc \in {"read", "await"}
    /\ nread < MaxLines
    /\ \E l \in Lines :
         /\ line' = l
         /\ badSeen' = (badSeen \/ l.kind = "badjson")
    /\ nread' = nread + 1
    /\ pc' = "handle"
    /\ log' = << >>
    /\ invoked' = "none"
    /\ out' = NoResponse
    /\ UNCHANGED <<mode, nwritten, answered, frame, inflight, eof, scraper,
                   created, served>>
    /\ UNCHANGED dashVars

\* line = sys.stdin.readline(), lines 119-122: a line
ReadLine ==
    /\ mode = "bridge"
    /\ pc = "read"
    /\ nread < MaxLines
    /\ \E l \in Lines :
         /\ line' = l
         /\ badSeen' = (badSeen \/ l.kind = "badjson")
    /\ nread' = nread + 1
    /\ pc' = "handle"
    /\ log' = << >>
    /\ invoked' = "none"
    /\ out' = NoResponse
    /\ UNCHANGED <<mode, nwritten, answered, frame, inflight, eof, scraper,
                   created, served>>
    /\ UNCHANGED dashVars

\* a loop without "if not line: break": the empty string goes to json.loads
ReadEOF_no_break ==
    /\ mode = "bridge"
    /\ pc = "read"
    /\ ~eof
    /\ eof' = TRUE
    /\ Write([error |-> "Invalid JSON input."])
    /\ UNCHANGED <<mode, pc, line, nread, frame, inflight, log, invoked, badSeen,
                   scraper, created, served>>
    /\ UNCHANGED dashVars

\* line = sys.stdin.readline(), lines 119-122: end of input
ReadEOF ==
    /\ mode = "bridge"
    /\ pc = "read"
    /\ eof' = TRUE
    /\ pc' = "done"
    /\ UNCHANGED <<mode, line, nread, nwritten, out, answered, frame, inflight,
                   log, invoked, badSeen, scraper, created, served>>
    /\ UNCHANGED dashVars

\* lines 124-149 up to the response or the first scraper coroutine
Dispatch ==
    /\ mode = "bridge"
    /\ pc = "handle"
    /\ invoked' = IF ReachesTool(line) THEN tool_name(line) ELSE "none"
    /\ Settle(cli_body(line), inflight, log)
    /\ UNCHANGED <<mode, line, nread, badSeen, eof, scraper, created>>
    /\ UNCHANGED dashVars

\* asyncio.run(SCRAPER.search_track(query)) is over, line 27
SearchReturn ==
    /\ mode = "bridge"
    /\ pc = "await"
    /\ frame.fn = "search_track"
    /\ \E r \in SearchOutcomes :
         Settle(WrapResult(IF invoked = "search_track"
                           THEN search_track_resume(r)
                           ELSE get_track_samples_resume(frame.include_youtube, r)),
                inflight - 1,
                Append(log, [ev |-> "ret", fn |-> "search_track", r |-> r]))
    /\ UNCHANGED <<mode, line, nread, invoked, badSeen, eof, scraper, created>>
    /\ UNCHANGED dashVars

\* asyncio.run(SCRAPER.get_track_details(url, include_youtube)) is over, line 73
DetailsReturn ==
    /\ mode = "bridge"
    /\ pc = "await"
    /\ frame.fn = "get_track_details"
    /\ \E r \in DetailsOutcomes :
         Settle(WrapResult(get_track_details_by_url_resume(
                               frame.url, frame.track_title, frame.include_youtube, r)),
                inflight - 1,
                Append(log, [ev |-> "ret", fn |-> "get_track_details", r |-> r]))
    /\ UNCHANGED <<mode, line, nread, invoked, badSeen, eof, scraper, created>>
    /\ UNCHANGED dashVars

----------------------------------------------------------------------------
(* app.py: the dashboard.  Streamlit runs the script from the top on every *)
(* interaction; an action is one script run (with the run st.rerun starts). *)

None == [none |-> TRUE]

\* if d: of a dict or None
TruthyDict(d) == d # None /\ DOMAIN d # {}

\* display_list(details[key], ...) for the four tabs, lines 113-129: the
\* exception the subscripts raise, or "none"
display_tabs(details) ==
    IF {"samples", "sampled_by", "covers", "remixes"} \subseteq DOMAIN details
    THEN "none"
    ELSE "KeyError"

\* lines 68-132 with no button pressed: the exception that ends the rendering
display_results(track, details) ==
    IF TruthyDict(track) /\ TruthyDict(details)
    THEN display_tabs(details)
    ELSE "none"

\* the script reaches lines 85-86 with track_details None
load_button(track, details) == TruthyDict(track) /\ details = None

\* the four tabs are rendered to the end
tabs_rendered(track, details) ==
    /\ TruthyDict(track)
    /\ TruthyDict(details)
    /\ display_tabs(details) = "none"

\* the first script run of a session, lines 19-36: the scraper is constructed
\* and stored, or the constructor raises and st.stop() ends the run
DashStart ==
    /\ mode = "dashboard"
    /\ scraper = 0
    /\ runs < MaxRuns
    /\ runs' = runs + 1
    /\ \E ok \in BOOLEAN :
         IF ok
         THEN /\ created' = created + 1
              /\ scraper' = created + 1
              /\ notice' = "none"
         ELSE /\ UNCHANGED <<created, scraper>>
              /\ notice' = "init_failed"
    /\ fault' = "none"
    /\ tabs' = FALSE
    /\ loadShown' = FALSE
    /\ UNCHANGED <<mode, served, current_track, track_details, detailsUrl>>
    /\ UNCHANGED bridgeVars

\* a script run with no button pressed (a reload, an edit of the text input,
\* or Search pressed with an empty query, line 54)
DashRerun ==
    /\ mode = "dashboard"
    /\ scraper # 0
    /\ runs < MaxRuns
    /\ runs' = runs + 1
    /\ notice' = "none"
    /\ fault' = display_results(current_track, track_details)
    /\ tabs' = tabs_rendered(current_track, track_details)
    /\ loadShown' = load_button(current_track, track_details)
    /\ UNCHANGED <<mode, scraper, created, served, current_track, track_details,
                   detailsUrl>>
    /\ UNCHANGED bridgeVars

\* the search handler without the reset of line 61
DashSearch_no_reset ==
    /\ mode = "dashboard"
    /\ scraper # 0
    /\ runs < MaxRuns
    /\ runs' = runs + 1
    /\ served' = served \cup {scraper}
    /\ \E r \in SearchOutcomes :
         IF r.t = "raise"
         THEN \* asyncio.run(perform_search(query)) raises: the run ends there
              /\ fault' = r.exc
              /\ notice' = "none"
              /\ tabs' = FALSE
              /\ loadShown' = FALSE
              /\ UNCHANGED <<current_track, track_details, detailsUrl>>
         ELSE IF r.v.found
         THEN /\ current_track' = r.v
              /\ UNCHANGED <<track_details, detailsUrl>>
              /\ notice' = "found"
              /\ fault' = display_results(r.v, track_details)
              /\ tabs' = tabs_rendered(r.v, track_details)
              /\ loadShown' = load_button(r.v, track_details)
         ELSE /\ notice' = "not_found"
              /\ fault' = display_results(current_track, track_details)
              /\ tabs' = tabs_rendered(current_track, track_details)
              /\ loadShown' = load_button(current_track, track_details)
              /\ UNCHANGED <<current_track, track_details, detailsUrl>>
    /\ UNCHANGED <<mode, scraper, created>>
    /\ UNCHANGED bridgeVars

\* the search handler forgetting the stored track when nothing is found
DashSearch_clears_on_miss ==
    /\ mode = "dashboard"
    /\ scraper # 0
    /\ runs < MaxRuns
    /\ runs' = runs + 1
    /\ served' = served \cup {scraper}
    /\ \E r \in SearchOutcomes :
         IF r.t = "raise"
         THEN \* asyncio.run(perform_search(query)) raises: the run ends there
              /\ fault' = r.exc
              /\ notice' = "none"
              /\ tabs' = FALSE
              /\ loadShown' = FALSE
              /\ UNCHANGED <<current_track, track_details, detailsUrl>>
         ELSE IF r.v.found
         THEN /\ current_track' = r.v
              /\ track_details' = None
              /\ detailsUrl' = ""
              /\ notice' = "found"
              /\ fault' = "none"
              /\ tabs' = FALSE
              /\ loadShown' = TRUE
         ELSE /\ notice' = "not_found"
              /\ current_track' = None
              /\ track_details' = None
              /\ detailsUrl' = ""
              /\ fault' = "none"
              /\ tabs' = FALSE
              /\ loadShown' = FALSE
    /\ UNCHANGED <<mode, scraper, created>>
    /\ UNCHANGED bridgeVars

\* a script run with Search pressed and a query, lines 54-64, then 68-132
DashSearch ==
    /\ mode = "dashboard"
    /\ scraper # 0
    /\ runs < MaxRuns
    /\ runs' = runs + 1
    /\ served' = served \cup {scraper}
    /\ \E r \in SearchOutcomes :
         IF r.t = "raise"
         THEN \* asyncio.run(perform_search(query)) raises: the run ends there
              /\ fault' = r.exc
              /\ notice' = "none"
              /\ tabs' = FALSE
              /\ loadShown' = FALSE
              /\ UNCHANGED <<current_track, track_details, detailsUrl>>
         ELSE IF r.v.found
         THEN /\ current_track' = r.v
              /\ track_details' = None
              /\ detailsUrl' = ""
              /\ notice' = "found"
              /\ fault' = "none"
              /\ tabs' = FALSE
              /\ loadShown' = TRUE
         ELSE /\ notice' = "not_found"
              /\ fault' = display_results(current_track, track_details)
              /\ tabs' = tabs_rendered(current_track, track_details)
              /\ loadShown' = load_button(current_track, track_details)
              /\ UNCHANGED <<current_track, track_details, detailsUrl>>
    /\ UNCHANGED <<mode, scraper, created>>
    /\ UNCHANGED bridgeVars

\* a script run with "Load Connections & Audio" pressed, lines 85-89, and the
\* run st.rerun() starts
DashLoad ==
    /\ mode = "dashboard"
    /\ scraper # 0
    /\ loadShown
    /\ runs < MaxRuns
    /\ runs' = runs + 1
    /\ served' = served \cup {scraper}
    /\ notice' = "none"
    /\ \E r \in DetailsOutcomes :
         IF r.t = "raise"
         THEN \* asyncio.run(perform_details_lookup(url)) raises: the run ends there
              /\ fault' = r.exc
              /\ tabs' = FALSE
              /\ loadShown' = TRUE
              /\ UNCHANGED <<track_details, detailsUrl>>
         ELSE /\ track_details' = r.v
              /\ detailsUrl' = current_track.url
              /\ fault' = display_results(current_track, r.v)
              /\ tabs' = tabs_rendered(current_track, r.v)
              /\ loadShown' = load_button(current_track, r.v)
    /\ UNCHANGED <<mode, scraper, created, current_track>>
    /\ UNCHANGED bridgeVars

----------------------------------------------------------------------------

Init ==
    /\ mode \in {"bridge", "dashboard"}
    /\ pc = IF mode = "bridge" THEN "import" ELSE "none"
    /\ line = NoLine
    /\ nread = 0
    /\ nwritten = 0
    /\ out = NoResponse
    /\ answered = << >>
    /\ frame = NoFrame
    /\ inflight = 0
    /\ log = << >>
    /\ invoked = "none"
    /\ badSeen = FALSE
    /\ eof = FALSE
    /\ scraper = 0
    /\ created = 0
    /\ served = {}
    /\ current_track = None
    /\ track_details = None
    /\ detailsUrl = ""
    /\ fault = "none"
    /\ notice = "none"
    /\ tabs = FALSE
    /\ loadShown = FALSE
    /\ runs = 0

Next ==
    \/ Import
    \/ ReadLine
    \/ ReadEOF
    \/ Dispatch
    \/ SearchReturn
    \/ DetailsReturn
    \/ DashStart
    \/ DashRerun
    \/ DashSearch
    \/ DashLoad

Spec == Init /\ [][Next]_vars

\* The bridge on a finite input stream whose tool calls all return: readline
\* returns (a line, or the empty string at the end of the stream), the loop
\* body runs on, and every scraper coroutine run by asyncio.run ends.
FairSpec ==
    /\ Spec
    /\ WF_vars(Import)
    /\ WF_vars(ReadLine \/ ReadEOF)
    /\ WF_vars(Dispatch)
    /\ WF_vars(SearchReturn)
    /\ WF_vars(DetailsReturn)

----------------------------------------------------------------------------
(* The claims *)

\* a line of standard output: {"result": ...} or {"error": message}
IsResponse(o) == DOMAIN o = {"result"} \/ DOMAIN o = {"error"}

\* the loop is between two requests: the request in hand, if any, is over
Settled == pc \in {"read", "done"}

\* C1: every line cli reads before end-of-input is answered by exactly one
\* line of standard output, of the shape {"result": ...} or {"error": message},
\* whatever the line holds: while a request is in hand nothing has been
\* written for it, and once it is over exactly one line has, so that the
\* lines written are as many as the lines read and the loop never ends on a
\* request.
C1_OneResponsePerLine ==
    mode = "bridge" =>
        /\ pc # "crashed"
        /\ (pc = "done" => eof)
        /\ (pc \in {"handle", "await"} => nwritten = nread - 1 /\ out = NoResponse)
        /\ (Settled => nwritten = nread)
        /\ (Settled /\ nread > 0 => IsResponse(out))
        /\ Len(answered) = nwritten

\* C1: the third line, a request whose "args" is no JSON object (the call of
\* the tool function raises TypeError), was answered, after a malformed line.
C1_Witness ==
    /\ mode = "bridge"
    /\ pc = "read"
    /\ nread = 3
    /\ nwritten = 3
    /\ badSeen
    /\ line.kind = "object"
    /\ line.tool = "get_track_samples"
    /\ line.args.shape = "notmapping"
    /\ DOMAIN out = {"error"}

\* C2: a malformed line is answered by the error response "Invalid JSON
\* input." and does not end the loop: after malformed lines the loop ends
\* only on end-of-input, every line read since has its answer, and a request
\* that names a tool of TOOL_MAP has that tool's function called.
C2_MalformedJsonContinues ==
    mode = "bridge" =>
        /\ (line.kind = "badjson" /\ Settled => out = [error |-> "Invalid JSON input."])
        /\ (badSeen => pc \in {"read", "handle", "await", "done"})
        /\ (badSeen /\ pc = "done" => eof)
        /\ (badSeen /\ Settled => nwritten = nread)
        /\ (badSeen /\ pc \in {"read", "await", "done"} /\ ReachesTool(line)
                => invoked = line.tool)

\* C2: after two malformed lines the third line names search_track, and the
\* tool function runs the search.
C2_Witness ==
    /\ mode = "bridge"
    /\ nread = 3
    /\ nwritten = 2
    /\ badSeen
    /\ pc = "await"
    /\ invoked = "search_track"
    /\ frame.fn = "search_track"

\* C3: a request with no "tool" key, or with a "tool" that is none of the
\* three names of TOOL_MAP, is answered by {"error": "Unknown tool: <name>"},
\* not wrapped in "result", and neither a tool function nor the scraper is
\* called for it.
C3_UnknownTool ==
    (mode = "bridge" /\ Settled /\ line.kind = "object" /\ line.tool \notin TOOL_MAP)
        => /\ out = [error |-> "Unknown tool: " \o tool_name(line)]
           /\ invoked = "none"
           /\ log = << >>

\* the scraper calls of the request in hand
Calls(fn) == {i \in 1..Len(log) : log[i].ev = "call" /\ log[i].fn = fn}

\* the search of the request in hand has failed: the scraper raised, or
\* reported no match
SearchFailed ==
    /\ Len(log) >= 2
    /\ log[2].ev = "ret"
    /\ log[2].fn = "search_track"
    /\ (log[2].r.t = "raise" \/ ~log[2].r.v.found)

\* C4: a search_track request with a non-empty query whose search fails (the
\* scraper reports no match, or raises) is answered by
\* {"result": {"error": message}}, never by a top-level {"error": ...}.
C4_SearchFailureInsideResult ==
    (mode = "bridge" /\ Settled /\ invoked = "search_track" /\ SearchFailed)
        => /\ DOMAIN out = {"result"}
           /\ DOMAIN out.result = {"error"}
           /\ out.result.error # ""

\* C4: the scraper raised during the search of a search_track request, and
\* the request was answered.
C4_Witness ==
    /\ mode = "bridge"
    /\ pc = "read"
    /\ invoked = "search_track"
    /\ SearchFailed
    /\ log[2].r.t = "raise"
    /\ "result" \in DOMAIN out

\* the arguments of a request for a tool of TOOL_MAP, as the tool is called
ArgOf(l, key) == tool_args(l)[key]

\* a query or url that is missing, empty or not a string
Malformed(v) == v = Absent \/ v = "" \/ ~IsStr(v)

\* the caller's arguments are missing or malformed
InvalidInput(l) ==
    \/ l.args.shape = "notmapping"
    \/ /\ l.args.shape # "notmapping"
       /\ IF tool_name(l) = "get_track_details_by_url"
          THEN Malformed(ArgOf(l, "url")) \/ ~StartsWith(ArgOf(l, "url"), "http")
          ELSE Malformed(ArgOf(l, "query"))

\* an error response, at the top level or inside "result"
IsErrorResponse(o) ==
    \/ DOMAIN o = {"error"}
    \/ DOMAIN o = {"result"} /\ "error" \in DOMAIN o.result

\* C5: a request for one of the three tools whose query (search_track,
\* get_track_samples) or url (get_track_details_by_url) is missing, empty or
\* malformed gets an error response, and no scraper coroutine is run for it.
C5_InvalidInputBeforeFetch ==
    (mode = "bridge" /\ pc \in {"await", "read", "done"} /\ ReachesTool(line)
        /\ InvalidInput(line))
        => /\ pc # "await"
           /\ log = << >>
           /\ IsErrorResponse(out)

\* C6: no failure of the engine ends in an uncaught exception: the bridge
\* loop never stops or raises because of a request, and no script run of the
\* dashboard (the search handler, the load-details handler and the rendering
\* of the four relation tabs) ends in an exception.
C6_NoUncaughtFaults ==
    /\ (mode = "bridge" => pc # "crashed" /\ (pc = "done" => eof))
    /\ (mode = "dashboard" => fault = "none")

\* C7: get_track_samples runs the search and then the details lookup and
\* stops at the first error: when the search fails no details lookup is
\* issued and the result is the error "Search failed: " followed by the
\* search's error; when the search succeeds exactly one details lookup is
\* issued, for the url the search returned.
C7_SamplesShortCircuit ==
    (mode = "bridge" /\ invoked = "get_track_samples" /\ Len(log) >= 2)
        => IF SearchFailed
           THEN /\ Calls("get_track_details") = {}
                /\ Len(log) = 2
                /\ Settled
                /\ out = [result |->
                            [error |-> "Search failed: "
                                         \o search_track_resume(log[2].r).v.error]]
           ELSE /\ Cardinality(Calls("search_track")) = 1
                /\ Cardinality(Calls("get_track_details")) = 1
                /\ log[3].ev = "call"
                /\ log[3].fn = "get_track_details"
                /\ log[3].arg = log[2].r.v.url

\* C7: the search of a get_track_samples request failed and the request was
\* answered after that one scraper call.
C7_Witness ==
    /\ mode = "bridge"
    /\ invoked = "get_track_samples"
    /\ SearchFailed
    /\ pc = "read"
    /\ Len(log) = 2
    /\ "result" \in DOMAIN out

\* every scraper call of the log is followed by its return
Balanced(lg) ==
    \A i \in 1..Len(lg) :
        lg[i].ev = "call" => i < Len(lg) /\ lg[i + 1].ev = "ret" /\ lg[i + 1].fn = lg[i].fn

\* C8: the bridge serves the requests in arrival order, one scraper call at
\* a time: the k-th line written answers the k-th line read, a line is read
\* only when no scraper call is running and every call of the request before
\* has returned, and at most one scraper call is in flight.
C8_ArrivalOrderSingleFetch ==
    mode = "bridge" =>
        /\ inflight \in {0, 1}
        /\ (inflight = 1 <=> pc = "await")
        /\ answered = [i \in 1..nwritten |-> i]
        /\ (pc \in {"handle", "await"} => nwritten = nread - 1)
        /\ (pc = "handle" => inflight = 0 /\ frame = NoFrame /\ log = << >>)
        /\ (Settled => Balanced(log))

\* C8: the details lookup of the second request is in flight; the first
\* request has been answered and the search of the second has returned.
C8_Witness ==
    /\ mode = "bridge"
    /\ nread = 2
    /\ answered = <<1>>
    /\ pc = "await"
    /\ inflight = 1
    /\ Len(log) = 3
    /\ frame.fn = "get_track_details"

FourLists == {"samples", "sampled_by", "covers", "remixes"}

\* the scraper's details of the request in hand
DetailsReturned == Len(log) = 2 /\ log[2].ev = "ret" /\ log[2].fn = "get_track_details"

\* C10: get_track_details_by_url on a track without relations (the scraper
\* returns the four lists empty and no error) returns the four empty lists
\* and no "error" key; every failure result (invalid url, an error of the
\* scraper, an exception of the scraper) holds an "error" key and none of
\* the four lists.
C10_EmptyDetailsIsNotFailure ==
    (mode = "bridge" /\ Settled /\ invoked = "get_track_details_by_url"
        /\ "result" \in DOMAIN out)
        => LET res == out.result
           IN  /\ ("error" \in DOMAIN res => DOMAIN res = {"error"})
               /\ ("error" \notin DOMAIN res => FourLists \subseteq DOMAIN res)
               /\ (log = << >> => "error" \in DOMAIN res)
               /\ (DetailsReturned /\ log[2].r.t = "raise" => "error" \in DOMAIN res)
               /\ (DetailsReturned /\ log[2].r.t = "ret"
                       => IF "error" \in DOMAIN log[2].r.v
                          THEN "error" \in DOMAIN res
                          ELSE /\ "error" \notin DOMAIN res
                               /\ \A k \in FourLists :
                                    log[2].r.v[k] = << >> => res[k] = << >>)

\* C10: the scraper returned four empty lists and the request was answered
\* with four empty lists and no error.
C10_Witness ==
    /\ mode = "bridge"
    /\ pc = "read"
    /\ invoked = "get_track_details_by_url"
    /\ DetailsReturned
    /\ "result" \in DOMAIN out
    /\ "error" \notin DOMAIN out.result
    /\ \A k \in FourLists : out.result[k] = << >> /\ log[2].r.v[k] = << >>

\* C11: end-of-input ends the loop cleanly: on a finite input stream whose
\* tool calls all return, cli eventually leaves the loop with every line
\* answered; it leaves the loop only from readline, on end-of-input, and
\* writes nothing for the end-of-input itself.
C11_EndOfInputTerminates ==
    /\ [](mode = "bridge" => nwritten <= nread /\ (pc = "done" => eof /\ nwritten = nread))
    /\ [][pc' = "done" /\ pc # "done" => pc = "read" /\ eof' /\ nwritten' = nwritten]_vars
    /\ (mode = "bridge") ~> (pc = "done" /\ eof /\ nwritten = nread)

\* C11: the loop has ended on end-of-input after three lines, all answered.
C11_Witness ==
    /\ mode = "bridge"
    /\ pc = "done"
    /\ eof
    /\ nread = 3
    /\ nwritten = 3

\* the request in hand ended with a details lookup that the scraper answered
\* with the four lists
DetailsSucceeded ==
    /\ Len(log) >= 2
    /\ log[Len(log)].ev = "ret"
    /\ log[Len(log)].fn = "get_track_details"
    /\ log[Len(log)].r.t = "ret"
    /\ FourLists \subseteq DOMAIN log[Len(log)].r.v

\* the request in hand was a search that the scraper answered with a track
SearchSucceeded ==
    /\ Len(log) >= 2
    /\ log[2].ev = "ret"
    /\ log[2].fn = "search_track"
    /\ log[2].r.t = "ret"
    /\ log[2].r.v.found

\* C12: the bridge is a pure adapter: a successful search_track returns the
\* title, artist and url the scraper returned, and a successful details
\* lookup returns the scraper's samples, sampled_by, covers and remixes as
\* they are (same elements, same order), with the url that was requested.
C12_PureAdapter ==
    (mode = "bridge" /\ Settled)
        => /\ (invoked = "search_track" /\ SearchSucceeded
                 => /\ DOMAIN out = {"result"}
                    /\ out.result.title = log[2].r.v.title
                    /\ out.result.artist = log[2].r.v.artist
                    /\ out.result.url = log[2].r.v.url)
           /\ (invoked \in {"get_track_details_by_url", "get_track_samples"}
                 /\ DetailsSucceeded
                 => /\ DOMAIN out = {"result"}
                    /\ \A k \in FourLists : out.result[k] = log[Len(log)].r.v[k]
                    /\ out.result.url = log[Len(log) - 1].arg
                    /\ (invoked = "get_track_details_by_url"
                          => out.result.url = ArgOf(line, "url")))

\* C12: a details lookup by url was answered with the scraper's lists, the
\* samples in the scraper's order and different from the sampled_by list.
C12_Witness ==
    /\ mode = "bridge"
    /\ pc = "read"
    /\ invoked = "get_track_details_by_url"
    /\ DetailsSucceeded
    /\ out.result.samples = <<Rel2, Rel1>>
    /\ out.result.sampled_by = <<Rel1>>
    /\ out.result.url = "https://ws/track/1"

\* include_youtube as the tool function of the request in hand receives it
IncludeYoutube == Default(ArgOf(line, "include_youtube"), PyFalse)

\* C15: a successful result of get_track_details_by_url or get_track_samples
\* holds a "youtube" key if and only if include_youtube is true: then it is
\* the watch URL of the scraper's youtube_id when there is one and the
\* not-found message otherwise; with include_youtube false or not given the
\* key is absent whatever the scraper returned; get_track_samples hands its
\* include_youtube on to the details lookup unchanged.
C15_YoutubeKey ==
    (mode = "bridge" /\ invoked \in {"get_track_details_by_url", "get_track_samples"})
        => /\ (pc = "await" /\ frame.fn = "get_track_details"
                 => frame.include_youtube = IncludeYoutube)
           /\ (Settled /\ DetailsSucceeded
                 => /\ ("youtube" \in DOMAIN out.result <=> IncludeYoutube = PyTrue)
                    /\ (IncludeYoutube = PyTrue
                          => out.result.youtube =
                               IF log[Len(log)].r.v.youtube_id # PyNone
                               THEN "https://www.youtube.com/watch?v="
                                      \o log[Len(log)].r.v.youtube_id
                               ELSE "YouTube link not found on the WhoSampled page."))

\* C15: get_track_samples with include_youtube false was answered without a
\* "youtube" key although the scraper returned a youtube_id.
C15_Witness ==
    /\ mode = "bridge"
    /\ pc = "read"
    /\ invoked = "get_track_samples"
    /\ DetailsSucceeded
    /\ IncludeYoutube = PyFalse
    /\ log[Len(log)].r.v.youtube_id # PyNone
    /\ "youtube" \notin DOMAIN out.result

\* the details in session state are the four lists of a page
HasLists(details) == details # None /\ FourLists \subseteq DOMAIN details

\* C13: in the dashboard track_details is set only while current_track is
\* set, and the stored details were fetched for the url of the current
\* current_track; a search that finds a track resets track_details to None in
\* the same step, so the tabs are only rendered from details of the current
\* track.
C13_DetailsBelongToCurrentTrack ==
    /\ [](mode = "dashboard"
            => /\ (track_details # None
                     => current_track # None /\ detailsUrl = current_track.url)
               /\ (track_details = None => detailsUrl = "")
               /\ (tabs => HasLists(track_details) /\ detailsUrl = current_track.url))
    /\ [][notice' = "found" /\ runs' = runs + 1
            => /\ track_details' = None
               /\ current_track'.found
               /\ ~tabs']_vars

\* C13: after a search, a load, a second search and a second load the details
\* on display are those of the second track.
C13_Witness ==
    /\ mode = "dashboard"
    /\ runs = MaxRuns
    /\ current_track = Track2
    /\ HasLists(track_details)
    /\ track_details.samples = <<Rel1>>
    /\ detailsUrl = Track2.url
    /\ tabs

\* C14: in the dashboard a search that finds no track leaves current_track
\* and track_details as they were; what was on display stays on display (the
\* track with the load button, or the loaded lists in their tabs) and the
\* error message is shown.
C14_MissKeepsTrack ==
    [][notice' = "not_found" /\ runs' = runs + 1
         => /\ UNCHANGED <<current_track, track_details, detailsUrl>>
            /\ (tabs => tabs')
            /\ (loadShown /\ fault = "none" => loadShown')
            /\ (current_track # None /\ HasLists(track_details)
                  => tabs' /\ fault' = "none")
            /\ (current_track # None /\ track_details = None => loadShown')]_vars

\* C14: a search found nothing while a track and its loaded lists were stored,
\* and they are still on display.
C14_Witness ==
    /\ mode = "dashboard"
    /\ notice = "not_found"
    /\ current_track = Track1
    /\ HasLists(track_details)
    /\ track_details.sampled_by = <<Rel2, Rel1>>
    /\ tabs
    /\ fault = "none"

====
